---------------------------- MODULE Spec2Model ----------------------------
(***************************************************************************)
(* Model of ios/FriendMap/import_icons.py: the script that copies every    *)
(* ".png" entry of a source directory into "<name>.imageset" directories   *)
(* of an Xcode asset catalog and writes a Contents.json next to each copy. *)
(*                                                                         *)
(* File names are sequences of one-character strings, so that endswith,    *)
(* os.path.splitext and the JSON string escaping are computed character by *)
(* character, as the Python runtime computes them.                         *)
(***************************************************************************)
EXTENDS Integers, Sequences, FiniteSets, TLC

(***************************************************************************)
(* Bounds of the model.                                                    *)
(***************************************************************************)
\* largest number of entries of the source directory
MaxEntries == 3
\* number of consecutive runs of the script
MaxRuns == 2

(***************************************************************************)
(* String literals of the script, as character sequences.                  *)
(***************************************************************************)
S_png == <<".", "p", "n", "g">>
S_gaming == <<"g", "a", "m", "i", "n", "g">>
S_imageset == <<".", "i", "m", "a", "g", "e", "s", "e", "t">>
S_ContentsJson == <<"C", "o", "n", "t", "e", "n", "t", "s", ".", "j", "s", "o", "n">>
S_images == <<"i", "m", "a", "g", "e", "s">>
S_filename == <<"f", "i", "l", "e", "n", "a", "m", "e">>
S_idiom == <<"i", "d", "i", "o", "m">>
S_universal == <<"u", "n", "i", "v", "e", "r", "s", "a", "l">>
S_scale == <<"s", "c", "a", "l", "e">>
S_1x == <<"1", "x">>
S_2x == <<"2", "x">>
S_3x == <<"3", "x">>
S_info == <<"i", "n", "f", "o">>
S_author == <<"a", "u", "t", "h", "o", "r">>
S_xcode == <<"x", "c", "o", "d", "e">>
S_version == <<"v", "e", "r", "s", "i", "o", "n">>

(***************************************************************************)
(* Python values handed to json.dump.  A dict is a sequence of <<key,      *)
(* value>> pairs (Python dicts keep insertion order).                      *)
(***************************************************************************)
PyStr(s) == [t |-> "str", s |-> s, n |-> 0, items |-> <<>>]
PyInt(n) == [t |-> "int", s |-> <<>>, n |-> n, items |-> <<>>]
PyList(items) == [t |-> "list", s |-> <<>>, n |-> 0, items |-> items]
PyDict(kv) == [t |-> "dict", s |-> <<>>, n |-> 0, items |-> kv]

\* the three-scale template (first version of the template, not called)
get_contents_json(filename) ==
    PyDict(<<
        <<S_images, PyList(<<
            PyDict(<< <<S_filename, PyStr(filename)>>,
                      <<S_idiom, PyStr(S_universal)>>,
                      <<S_scale, PyStr(S_1x)>> >>),
            PyDict(<< <<S_idiom, PyStr(S_universal)>>,
                      <<S_scale, PyStr(S_2x)>> >>),
            PyDict(<< <<S_idiom, PyStr(S_universal)>>,
                      <<S_scale, PyStr(S_3x)>> >>) >>)>>,
        <<S_info, PyDict(<< <<S_author, PyStr(S_xcode)>>,
                            <<S_version, PyInt(1)>> >>)>> >>)

\* a template that lists the 1x, 2x and 3x slots, as get_contents_json does
get_1x_contents_json_AllScales(filename) == get_contents_json(filename)

\* the template the main loop uses: one image, scale 1x
get_1x_contents_json(filename) ==
    PyDict(<<
        <<S_images, PyList(<<
            PyDict(<< <<S_filename, PyStr(filename)>>,
                      <<S_idiom, PyStr(S_universal)>>,
                      <<S_scale, PyStr(S_1x)>> >>) >>)>>,
        <<S_info, PyDict(<< <<S_author, PyStr(S_xcode)>>,
                            <<S_version, PyInt(1)>> >>)>> >>)

(***************************************************************************)
(* str.endswith and os.path.splitext on a file name (no path separator).   *)
(***************************************************************************)
EndsWith(s, suffix) ==
    /\ Len(s) >= Len(suffix)
    /\ SubSeq(s, Len(s) - Len(suffix) + 1, Len(s)) = suffix

\* the letters of the suffix in either case
Lower(c) == CASE c = "P" -> "p" [] c = "N" -> "n" [] c = "G" -> "g" [] OTHER -> c

\* a filter that ignores the case of the extension
IsCandidate_AnyCase(f) == EndsWith([k \in 1..Len(f) |-> Lower(f[k])], S_png)

\* the filter of the list comprehension: f.endswith(".png")
IsCandidate(f) == EndsWith(f, S_png)

\* position of the last "." of p, 0 when there is none (str.rfind)
LastDot(p) ==
    LET dots == {k \in 1..Len(p) : p[k] = "."}
    IN  IF dots = {} THEN 0 ELSE CHOOSE k \in dots : \A j \in dots : j <= k

\* os.path.splitext: the extension starts at the last dot, unless only dots
\* precede it (leading dots belong to the root)
splitext(p) ==
    LET dotIndex == LastDot(p)
    IN  IF dotIndex > 0 /\ \E j \in 1..(dotIndex - 1) : p[j] # "."
        THEN <<SubSeq(p, 1, dotIndex - 1), SubSeq(p, dotIndex, Len(p))>>
        ELSE <<p, <<>> >>

\* name_no_ext = os.path.splitext(f)[0]
name_no_ext(f) == splitext(f)[1]

\* an exclusion test that never matches
IsExcluded_Never(name) == FALSE

\* the exclusion test of the loop: name_no_ext == "gaming"
IsExcluded(name) == name = S_gaming

\* the directory name f"{name_no_ext}.imageset" under dest_root
imageset_dir(f) == name_no_ext(f) \o S_imageset

(***************************************************************************)
(* json.dump(obj, json_file, indent=2): the text of a descriptor, as the   *)
(* sequence of chunks the encoder writes.  A chunk is a punctuation mark,  *)
(* a quoted string (s holds the escaped characters between the quotes), a  *)
(* number, or a line break followed by n spaces.                           *)
(***************************************************************************)
\* the indent argument of json.dump
Indent == 2

Punct(c) == [k |-> c, s |-> <<>>, n |-> 0]
Quoted(s) == [k |-> "str", s |-> s, n |-> 0]
Number(n) == [k |-> "num", s |-> <<>>, n |-> n]
NewLine(level) == [k |-> "nl", s |-> <<>>, n |-> Indent * level]

\* the encoder's escaping of one character of a string
EscapeChar(c) ==
    CASE c = "\"" -> <<"\\", "\"">>
      [] c = "\\" -> <<"\\", "\\">>
      [] OTHER -> <<c>>

RECURSIVE Escape(_)
Escape(s) == IF s = <<>> THEN <<>> ELSE EscapeChar(Head(s)) \o Escape(Tail(s))

RECURSIVE Encode(_, _)
RECURSIVE EncodeList(_, _, _)
RECURSIVE EncodeDict(_, _, _)

\* the elements k.. of a list, separated by "," and a line break
EncodeList(items, k, level) ==
    IF k > Len(items) THEN <<>>
    ELSE (IF k > 1 THEN <<Punct(","), NewLine(level)>> ELSE <<>>)
         \o Encode(items[k], level) \o EncodeList(items, k + 1, level)

\* the members k.. of a dict: key, ": ", value
EncodeDict(kv, k, level) ==
    IF k > Len(kv) THEN <<>>
    ELSE (IF k > 1 THEN <<Punct(","), NewLine(level)>> ELSE <<>>)
         \o <<Quoted(Escape(kv[k][1])), Punct(":")>>
         \o Encode(kv[k][2], level) \o EncodeDict(kv, k + 1, level)

Encode(v, level) ==
    CASE v.t = "str" -> <<Quoted(Escape(v.s))>>
      [] v.t = "int" -> <<Number(v.n)>>
      [] v.t = "list" ->
            IF v.items = <<>> THEN <<Punct("[]")>>
            ELSE <<Punct("["), NewLine(level + 1)>>
                 \o EncodeList(v.items, 1, level + 1)
                 \o <<NewLine(level), Punct("]")>>
      [] v.t = "dict" ->
            IF v.items = <<>> THEN <<Punct("{}")>>
            ELSE <<Punct("{"), NewLine(level + 1)>>
                 \o EncodeDict(v.items, 1, level + 1)
                 \o <<NewLine(level), Punct("}")>>

json_dump(obj) == Encode(obj, 0)

\* a file opened for appending keeps what it held
open_mode_Append == "a"

\* the mode of open(..., "w")
open_mode == "w"

\* what a file holds after open(path, mode), a complete write and close
written(old, text, mode) == IF mode = "a" THEN old \o text ELSE text

(***************************************************************************)
(* Reading a descriptor back (json.load, as the asset catalog's reader     *)
(* does): used to state what a written Contents.json says.                 *)
(***************************************************************************)
RECURSIVE Unescape(_)
Unescape(s) ==
    IF s = <<>> THEN <<>>
    ELSE IF Head(s) = "\\" /\ Len(s) >= 2
         THEN <<s[2]>> \o Unescape(SubSeq(s, 3, Len(s)))
         ELSE <<Head(s)>> \o Unescape(Tail(s))

ParseFail == [ok |-> FALSE, v |-> PyInt(0), p |-> 0]

RECURSIVE SkipNewLines(_, _)
SkipNewLines(toks, p) ==
    IF p <= Len(toks) /\ toks[p].k = "nl" THEN SkipNewLines(toks, p + 1) ELSE p

RECURSIVE ParseValue(_, _)
RECURSIVE ParseList(_, _, _)
RECURSIVE ParseDict(_, _, _)

\* after "[" and the elements in acc: the next element, then "," or "]"
ParseList(toks, p, acc) ==
    LET r == ParseValue(toks, p)
        q == SkipNewLines(toks, r.p)
    IN  IF ~r.ok \/ q > Len(toks) THEN ParseFail
        ELSE IF toks[q].k = "," THEN ParseList(toks, q + 1, Append(acc, r.v))
        ELSE IF toks[q].k = "]"
             THEN [ok |-> TRUE, v |-> PyList(Append(acc, r.v)), p |-> q + 1]
        ELSE ParseFail

\* after "{" and the members in acc: key, ":", value, then "," or "}"
ParseDict(toks, p, acc) ==
    LET q == SkipNewLines(toks, p)
    IN  IF q + 1 > Len(toks) \/ toks[q].k # "str" \/ toks[q + 1].k # ":"
        THEN ParseFail
        ELSE LET r == ParseValue(toks, q + 2)
                 e == SkipNewLines(toks, r.p)
                 kv == Append(acc, <<Unescape(toks[q].s), r.v>>)
             IN  IF ~r.ok \/ e > Len(toks) THEN ParseFail
                 ELSE IF toks[e].k = "," THEN ParseDict(toks, e + 1, kv)
                 ELSE IF toks[e].k = "}"
                      THEN [ok |-> TRUE, v |-> PyDict(kv), p |-> e + 1]
                 ELSE ParseFail

ParseValue(toks, p) ==
    LET q == SkipNewLines(toks, p)
    IN  IF q > Len(toks) THEN ParseFail
        ELSE CASE toks[q].k = "str" ->
                    [ok |-> TRUE, v |-> PyStr(Unescape(toks[q].s)), p |-> q + 1]
               [] toks[q].k = "num" ->
                    [ok |-> TRUE, v |-> PyInt(toks[q].n), p |-> q + 1]
               [] toks[q].k = "[]" -> [ok |-> TRUE, v |-> PyList(<<>>), p |-> q + 1]
               [] toks[q].k = "{}" -> [ok |-> TRUE, v |-> PyDict(<<>>), p |-> q + 1]
               [] toks[q].k = "[" -> ParseList(toks, q + 1, <<>>)
               [] toks[q].k = "{" -> ParseDict(toks, q + 1, <<>>)
               [] OTHER -> ParseFail

\* the whole text is one JSON value
json_load(toks) ==
    LET r == ParseValue(toks, 1)
    IN  IF r.ok /\ SkipNewLines(toks, r.p) > Len(toks) THEN r ELSE ParseFail

\* the text is a complete JSON document
IsJson(toks) == json_load(toks).ok

\* doc[key] of a parsed dict: the value of its first member named key
Member(doc, key) ==
    LET ks == {k \in 1..Len(doc.items) : doc.items[k][1] = key}
    IN  doc.items[CHOOSE k \in ks : \A j \in ks : k <= j][2]

HasMember(doc, key) ==
    doc.t = "dict" /\ \E k \in 1..Len(doc.items) : doc.items[k][1] = key

\* the member names of a parsed dict
Keys(doc) == {doc.items[k][1] : k \in 1..Len(doc.items)}

(***************************************************************************)
(* The two directories.  The source directory is a function from entry     *)
(* names to file contents; the destination root is a function from         *)
(* directory names to directories, each a function from file names to      *)
(* contents.  A PNG's content is a sequence of blocks, a descriptor's the   *)
(* sequence of chunks json.dump wrote.                                     *)
(***************************************************************************)
N_a == <<"a", ".", "p", "n", "g">>
N_gaming == S_gaming \o S_png
N_dot == S_png
N_dotdot == S_png \o S_png
N_upper == <<"a", ".", "P", "N", "G">>
N_quote == <<"q", "\"", ".", "p", "n", "g">>

\* the entry names a source directory is drawn from
SrcNames == {N_a, N_gaming, N_dot, N_dotdot, N_upper, N_quote}

S_magic == <<"P", "N", "G">>
S_old == <<"o", "l", "d">>
S_notes == <<"n", "o", "t", "e", "s">>

\* the bytes of source entry f: a header block and a block only f has
FileData(f) == <<S_magic, f>>
\* the bytes of a file left by an earlier import
StaleData == <<S_magic, S_old>>

EmptyDir == [n \in {} |-> <<>>]

\* a container left by an earlier version of the import: an older image,
\* a descriptor from the three-scale template and a file of the user's
StaleContainer(f) ==
    [n \in {f, S_ContentsJson, S_notes} |->
        IF n = S_ContentsJson THEN json_dump(get_contents_json(f))
        ELSE IF n = f THEN StaleData
        ELSE <<S_notes>>]

\* the names whose containers may exist before the first run
PreNames == {N_a, N_gaming}

PreDest(D) ==
    [d \in {name_no_ext(f) \o S_imageset : f \in D} |->
        StaleContainer(CHOOSE f \in D : name_no_ext(f) \o S_imageset = d)]

\* the listings of a directory: its entries, each once, in some order
Listings(S) ==
    {s \in [1..Cardinality(S) -> S] : \A j, k \in 1..Cardinality(S) : s[j] = s[k] => j = k}

\* what a write that fails midway leaves of a text: nothing (the file was
\* only created or truncated), its first half, or all but its last piece
Prefixes(text) ==
    {SubSeq(text, 1, k) : k \in {0, Len(text) \div 2, Len(text) - 1} \cap 0..(Len(text) - 1)}

VARIABLES
    srcExists,  \* the source directory exists
    source,     \* its entries: name -> content
    dirOrder,   \* the order in which os.listdir returns them: any order,
                \* but the same at every listing of the unchanged directory
    destRoot,   \* the destination root exists
    dest,       \* its directories: name -> (file name -> content)
    pc,         \* the script's position
    files,      \* the list built at line 105
    i,          \* index in files of the loop's current element (from 1)
    printed,    \* the numbers printed by the summary line of this run
    run,        \* number of the current run
    log,        \* the filesystem operations of this run's loop, in order
    dest0,      \* the destination root's directories when this run started
    failed      \* the exception that ended this run, "" when none

vars == <<srcExists, source, dirOrder, destRoot, dest, pc, files, i,
          printed, run, log, dest0, failed>>

env == <<srcExists, source, dirOrder>>

Init ==
    /\ srcExists \in BOOLEAN
    /\ \E S \in SUBSET SrcNames :
         /\ Cardinality(S) <= MaxEntries
         /\ srcExists = FALSE => S = {}
         /\ source = [f \in S |-> FileData(f)]
         /\ dirOrder \in Listings(S)
    /\ destRoot \in BOOLEAN
    /\ \E D \in SUBSET PreNames :
         /\ destRoot = FALSE => D = {}
         /\ dest = PreDest(D)
    /\ pc = "start"
    /\ files = <<>>
    /\ i = 1
    /\ printed = <<>>
    /\ run = 1
    /\ log = <<>>
    /\ dest0 = dest
    /\ failed = ""

(***************************************************************************)
(* Control flow.                                                           *)
(***************************************************************************)
\* an error handler that goes on with the loop
OnError_Continue(step) ==
    IF step \in {"makedirs", "copy", "write"} THEN "loop" ELSE "aborted"

\* no statement is inside a try: an exception ends the script
OnError(step) == "aborted"

\* the descriptor written before the file is copied
StepAfter_WriteFirst(step) ==
    CASE step = "makedirs" -> "write"
      [] step = "write" -> "copy"
      [] step = "copy" -> "loop"

\* the order of the loop body's statements
StepAfter(step) ==
    CASE step = "makedirs" -> "copy"
      [] step = "copy" -> "write"
      [] step = "write" -> "loop"

\* a listing that treats a missing directory as empty
listdir_raises_Never(exists) == FALSE

\* os.listdir raises FileNotFoundError when the directory is missing
listdir_raises(exists) == ~exists

\* os.makedirs raises FileExistsError unless exist_ok
makedirs_raises(exists, exist_ok) == exists /\ ~exist_ok

Raise(step, exc) ==
    /\ pc' = OnError(step)
    /\ failed' = exc

Logged(op, f, ok) ==
    Append(log, [op |-> op, file |-> f, dir |-> imageset_dir(f), ok |-> ok])

\* dest with file n of directory d holding data
WithFile(d, n, data) ==
    [dest EXCEPT ![d] = [m \in DOMAIN dest[d] \cup {n} |->
                            IF m = n THEN data ELSE dest[d][m]]]

\* line 9: os.makedirs(dest_root, exist_ok=True)
EnsureDestRoot ==
    /\ pc = "start"
    /\ IF makedirs_raises(destRoot, TRUE)
       THEN Raise("root", "FileExistsError") /\ UNCHANGED destRoot
       ELSE \/ destRoot' = TRUE /\ pc' = "list" /\ UNCHANGED failed
            \/ Raise("root", "OSError") /\ UNCHANGED destRoot
    /\ UNCHANGED <<env, dest, files, i, printed, run, log, dest0>>

\* line 105: files = [f for f in os.listdir(source_dir) if f.endswith(".png")]
ListFiles ==
    /\ pc = "list"
    /\ IF listdir_raises(srcExists)
       THEN Raise("list", "FileNotFoundError") /\ UNCHANGED files
       ELSE \/ /\ files' = SelectSeq(dirOrder, IsCandidate)
               /\ pc' = "loop"
               /\ UNCHANGED failed
            \/ Raise("list", "OSError") /\ UNCHANGED files
    /\ UNCHANGED <<env, destRoot, dest, i, printed, run, log, dest0>>

\* lines 108-112: the excluded name is passed over
SkipExcluded ==
    /\ pc = "loop"
    /\ i <= Len(files)
    /\ IsExcluded(name_no_ext(files[i]))
    /\ i' = i + 1
    /\ UNCHANGED <<env, destRoot, dest, pc, files, printed, run, log, dest0, failed>>

\* lines 108-115: os.makedirs(imageset_dir, exist_ok=True)
MakeImagesetDir ==
    /\ pc = "loop"
    /\ i <= Len(files)
    /\ ~IsExcluded(name_no_ext(files[i]))
    /\ LET f == files[i]
           d == imageset_dir(f)
       IN  IF makedirs_raises(d \in DOMAIN dest, TRUE)
           THEN /\ Raise("makedirs", "FileExistsError")
                /\ log' = Logged("makedirs", f, FALSE)
                /\ UNCHANGED dest
           ELSE \/ /\ dest' = [e \in DOMAIN dest \cup {d} |->
                                 IF e \in DOMAIN dest THEN dest[e] ELSE EmptyDir]
                   /\ log' = Logged("makedirs", f, TRUE)
                   /\ pc' = StepAfter("makedirs")
                   /\ UNCHANGED failed
                \/ /\ Raise("makedirs", "OSError")
                   /\ log' = Logged("makedirs", f, FALSE)
                   /\ UNCHANGED dest
    /\ UNCHANGED <<env, destRoot, files, i, printed, run, dest0>>

\* line 118: shutil.copy(os.path.join(source_dir, f), os.path.join(imageset_dir, f))
CopyFile ==
    /\ pc = "copy"
    /\ LET f == files[i]
           d == imageset_dir(f)
           nxt == StepAfter("copy")
       IN  \/ /\ dest' = WithFile(d, f, source[f])
              /\ log' = Logged("copy", f, TRUE)
              /\ pc' = nxt
              /\ i' = IF nxt = "loop" THEN i + 1 ELSE i
              /\ UNCHANGED failed
           \/ /\ Raise("copy", "OSError")
              /\ \/ UNCHANGED dest
                 \/ \E part \in Prefixes(source[f]) : dest' = WithFile(d, f, part)
              /\ log' = Logged("copy", f, FALSE)
              /\ UNCHANGED i
    /\ UNCHANGED <<env, destRoot, files, printed, run, dest0>>

\* lines 121-122: with open(.../Contents.json, "w"): json.dump(..., indent=2)
WriteContents ==
    /\ pc = "write"
    /\ LET f == files[i]
           d == imageset_dir(f)
           old == IF S_ContentsJson \in DOMAIN dest[d]
                  THEN dest[d][S_ContentsJson] ELSE <<>>
           text == json_dump(get_1x_contents_json(f))
           nxt == StepAfter("write")
       IN  \/ /\ dest' = WithFile(d, S_ContentsJson, written(old, text, open_mode))
              /\ log' = Logged("write", f, TRUE)
              /\ pc' = nxt
              /\ i' = IF nxt = "loop" THEN i + 1 ELSE i
              /\ UNCHANGED failed
           \/ /\ Raise("write", "OSError")
              /\ \/ UNCHANGED dest
                 \/ \E part \in Prefixes(text) :
                      dest' = WithFile(d, S_ContentsJson, written(old, part, open_mode))
              /\ log' = Logged("write", f, FALSE)
              /\ UNCHANGED i
    /\ UNCHANGED <<env, destRoot, files, printed, run, dest0>>

\* line 124: print(f"Processed {len(files)} icons.")
PrintSummary ==
    /\ pc = "loop"
    /\ i > Len(files)
    /\ printed' = Append(printed, Len(files))
    /\ pc' = "done"
    /\ UNCHANGED <<env, destRoot, dest, files, i, run, log, dest0, failed>>

\* after a completed run the script is started again; the directories are
\* as that run left them
Rerun ==
    /\ pc = "done"
    /\ run < MaxRuns
    /\ run' = run + 1
    /\ pc' = "start"
    /\ files' = <<>>
    /\ i' = 1
    /\ printed' = <<>>
    /\ log' = <<>>
    /\ dest0' = dest
    /\ failed' = ""
    /\ UNCHANGED <<env, destRoot, dest>>

Next ==
    \/ EnsureDestRoot
    \/ ListFiles
    \/ SkipExcluded
    \/ MakeImagesetDir
    \/ CopyFile
    \/ WriteContents
    \/ PrintSummary
    \/ Rerun

Spec == Init /\ [][Next]_vars

\* the first run starts with no directory under the destination root
InitEmpty == Init /\ dest = EmptyDir

SpecEmpty == InitEmpty /\ [][Next]_vars

(***************************************************************************)
(* Vocabulary of the properties.  They are stated on the directories, the  *)
(* log and the output, with the suffix test, the base name and the reading *)
(* of a descriptor spelled out here.                                       *)
(***************************************************************************)
\* the entries of the source directory that are to be imported
Wanted == {f \in DOMAIN source : EndsWith(f, S_png) /\ splitext(f)[1] # S_gaming}

\* "<base-name>.imageset"
ContainerOf(f) == splitext(f)[1] \o S_imageset

\* the text is a complete descriptor that names a first image
NamesImage(text) ==
    LET r == json_load(text)
    IN  /\ r.ok
        /\ HasMember(r.v, S_images)
        /\ Member(r.v, S_images).t = "list"
        /\ Len(Member(r.v, S_images).items) >= 1
        /\ HasMember(Member(r.v, S_images).items[1], S_filename)
        /\ Member(Member(r.v, S_images).items[1], S_filename).t = "str"

\* images[0].filename of a descriptor
ImageName(text) ==
    Member(Member(json_load(text).v, S_images).items[1], S_filename).s

\* directory d holds a Contents.json
HasDescriptor(d) == d \in DOMAIN dest /\ S_ContentsJson \in DOMAIN dest[d]

\* directory d holds a complete Contents.json
HasWholeDescriptor(d) == HasDescriptor(d) /\ IsJson(dest[d][S_ContentsJson])

\* the positions of files whose loop body ran to its end in this run
Processed ==
    {k \in 1..Len(files) : k < i /\ splitext(files[k])[1] # S_gaming}

\* the directories this run's loop operated on
Touched == {log[k].dir : k \in 1..Len(log)}

\* the last position of files whose container is d
LastFor(d) ==
    CHOOSE k \in 1..Len(files) :
        /\ ContainerOf(files[k]) = d
        /\ \A j \in 1..Len(files) : ContainerOf(files[j]) = d => j <= k

\* the text of the descriptor for file name f, chunk by chunk
DescriptorText(f) ==
    <<Punct("{"), NewLine(1), Quoted(S_images), Punct(":"), Punct("["),
      NewLine(2), Punct("{"),
      NewLine(3), Quoted(S_filename), Punct(":"), Quoted(Escape(f)), Punct(","),
      NewLine(3), Quoted(S_idiom), Punct(":"), Quoted(S_universal), Punct(","),
      NewLine(3), Quoted(S_scale), Punct(":"), Quoted(S_1x),
      NewLine(2), Punct("}"),
      NewLine(1), Punct("]"), Punct(","),
      NewLine(1), Quoted(S_info), Punct(":"), Punct("{"),
      NewLine(2), Quoted(S_author), Punct(":"), Quoted(S_xcode), Punct(","),
      NewLine(2), Quoted(S_version), Punct(":"), Number(1),
      NewLine(1), Punct("}"),
      NewLine(0), Punct("}")>>

(***************************************************************************)
(* C1: after a run that completes, every source entry that ends with       *)
(* ".png" and whose base name is not "gaming" has its container            *)
(* "<base-name>.imageset" under the destination root, holding a file of    *)
(* the entry's name and a Contents.json whose images[0].filename is that   *)
(* name.                                                                   *)
(***************************************************************************)
C1_EveryPngImported ==
    pc = "done" =>
        \A f \in Wanted :
            /\ ContainerOf(f) \in DOMAIN dest
            /\ f \in DOMAIN dest[ContainerOf(f)]
            /\ HasDescriptor(ContainerOf(f))
            /\ NamesImage(dest[ContainerOf(f)][S_ContentsJson])
            /\ ImageName(dest[ContainerOf(f)][S_ContentsJson]) = f

(***************************************************************************)
(* C2: after a completed run from an empty destination root, every         *)
(* processed candidate has one container, two processed candidates have    *)
(* different containers, and a container holds exactly one copied file and *)
(* exactly one Contents.json.                                              *)
(***************************************************************************)
C2_OneContainerEach ==
    (pc = "done" /\ run = 1) =>
        /\ DOMAIN dest = {ContainerOf(files[k]) : k \in Processed}
        /\ \A j, k \in Processed :
              j # k => ContainerOf(files[j]) # ContainerOf(files[k])
        /\ \A k \in Processed :
              /\ ContainerOf(files[k]) \in DOMAIN dest
              /\ DOMAIN dest[ContainerOf(files[k])] = {files[k], S_ContentsJson}

(***************************************************************************)
(* C3: in every state of a run, with or without "gaming.png" in the source *)
(* directory, the run has not created "gaming.imageset" and has not copied *)
(* a file or written a Contents.json into it.                              *)
(***************************************************************************)
C3_NoGamingContainer ==
    LET g == S_gaming \o S_imageset
    IN  /\ \A k \in 1..Len(log) : log[k].dir # g
        /\ g \in DOMAIN dest <=> g \in DOMAIN dest0
        /\ g \in DOMAIN dest => dest[g] = dest0[g]

C3_Witness ==
    /\ pc = "done"
    /\ N_gaming \in DOMAIN source
    /\ Len(files) >= 2
    /\ log # <<>>
    /\ (S_gaming \o S_imageset) \notin DOMAIN dest

(***************************************************************************)
(* C4: when the source directory is absent, the listing fails and the run  *)
(* aborts: it creates no container under the destination root and prints   *)
(* no summary line.                                                        *)
(***************************************************************************)
C4_AbsentSourceAborts ==
    ~srcExists =>
        /\ pc \in {"start", "list", "aborted"}
        /\ printed = <<>>
        /\ log = <<>>
        /\ dest = dest0
        /\ pc = "aborted" => failed # ""

C4_Witness ==
    /\ ~srcExists
    /\ pc = "aborted"
    /\ failed = "FileNotFoundError"
    /\ destRoot

(***************************************************************************)
(* C5: on a run that completes, the number in "Processed N icons." is the  *)
(* number of candidates processed: those for which the container was       *)
(* created, the file copied and the Contents.json written in that run.     *)
(***************************************************************************)
C5_SummaryCountsProcessed ==
    pc = "done" =>
        printed = <<Cardinality({k \in 1..Len(log) : log[k].op = "write" /\ log[k].ok})>>

C7_FailureState ==
    failed # "" =>
        /\ pc = "aborted"
        /\ printed = <<>>
        /\ \A k \in 1..Len(log) : log[k].ok <=> k < Len(log)
        /\ \A k \in 1..Len(log) : \E j \in 1..i : j <= Len(files) /\ log[k].file = files[j]
        /\ log # <<>> => log[Len(log)].file = files[i]
        /\ \A k \in 1..Len(log) :
              /\ log[k].ok /\ log[k].op = "makedirs" => log[k].dir \in DOMAIN dest
              /\ log[k].ok /\ log[k].op = "copy" =>
                    /\ log[k].dir \in DOMAIN dest
                    /\ log[k].file \in DOMAIN dest[log[k].dir]
                    /\ dest[log[k].dir][log[k].file] = source[log[k].file]
              /\ log[k].ok /\ log[k].op = "write" => HasDescriptor(log[k].dir)

C7_FailureStep ==
    /\ failed # "" => UNCHANGED vars
    /\ \A d \in DOMAIN dest :
          /\ d \in DOMAIN dest'
          /\ DOMAIN dest[d] \subseteq DOMAIN dest'[d]

C7_AbortOnFailure == []C7_FailureState /\ [][C7_FailureStep]_vars

C7_Witness ==
    /\ failed = "OSError"
    /\ Len(files) = 3
    /\ i = 2
    /\ Len(log) >= 5
    /\ log[Len(log)].op \in {"copy", "write"}
    /\ \E d \in DOMAIN dest : d # log[Len(log)].dir /\ HasWholeDescriptor(d)

(***************************************************************************)
(* C8: every Contents.json the script writes has an "images" array of      *)
(* exactly one element, with exactly filename = the candidate's name,      *)
(* idiom = "universal" and scale = "1x", and an "info" object with         *)
(* author = "xcode" and version = 1.                                       *)
(***************************************************************************)
C8_DescriptorShape ==
    (log # <<>> /\ log[Len(log)].op = "write" /\ log[Len(log)].ok) =>
        LET r == json_load(dest[log[Len(log)].dir][S_ContentsJson])
            images == Member(r.v, S_images)
            image == images.items[1]
            info == Member(r.v, S_info)
        IN  /\ r.ok
            /\ r.v.t = "dict"
            /\ Keys(r.v) = {S_images, S_info} /\ Len(r.v.items) = 2
            /\ images.t = "list" /\ Len(images.items) = 1
            /\ image.t = "dict"
            /\ Keys(image) = {S_filename, S_idiom, S_scale} /\ Len(image.items) = 3
            /\ Member(image, S_filename) = PyStr(log[Len(log)].file)
            /\ Member(image, S_idiom) = PyStr(S_universal)
            /\ Member(image, S_scale) = PyStr(S_1x)
            /\ info.t = "dict"
            /\ Keys(info) = {S_author, S_version} /\ Len(info.items) = 2
            /\ Member(info, S_author) = PyStr(S_xcode)
            /\ Member(info, S_version) = PyInt(1)

C8_Witness ==
    /\ log # <<>>
    /\ log[Len(log)].op = "write"
    /\ log[Len(log)].ok
    /\ log[Len(log)].file = N_quote

(***************************************************************************)
(* C9: a run changes nothing outside the containers of processed           *)
(* candidates: the source directory keeps its entries and their contents,  *)
(* no operation is done for an entry that does not end with ".png", and    *)
(* what the destination root held elsewhere is unchanged.                  *)
(***************************************************************************)
C9_Frame ==
    /\ DOMAIN source = {dirOrder[k] : k \in 1..Len(dirOrder)}
    /\ \A f \in DOMAIN source : source[f] = FileData(f)
    /\ \A k \in 1..Len(log) :
          /\ log[k].file \in DOMAIN source
          /\ EndsWith(log[k].file, S_png)
          /\ log[k].dir = ContainerOf(log[k].file)
    /\ \A d \in DOMAIN dest0 : d \in DOMAIN dest
    /\ \A d \in DOMAIN dest : d \notin Touched => d \in DOMAIN dest0 /\ dest[d] = dest0[d]
    /\ \A d \in DOMAIN dest : d \in DOMAIN dest0 \/ \E f \in Wanted : d = ContainerOf(f)

C9_Witness ==
    /\ pc = "done"
    /\ N_upper \in DOMAIN source
    /\ log # <<>>
    /\ \E d \in DOMAIN dest : d \notin Touched

(***************************************************************************)
(* C10: for each candidate the container is created, then the file copied, *)
(* then the Contents.json written, and all of it before the next candidate *)
(* starts; so, from an empty destination root, a container that holds a    *)
(* Contents.json holds the copied file the descriptor names, and at most   *)
(* one container lacks its descriptor.                                     *)
(***************************************************************************)
C10_StepOrder ==
    /\ \A k \in 1..Len(log) :
          /\ log[k].op = "makedirs" => k = 1 \/ (log[k - 1].op = "write" /\ log[k - 1].ok)
          /\ log[k].op = "copy" =>
                k > 1 /\ log[k - 1] = [log[k] EXCEPT !.op = "makedirs", !.ok = TRUE]
          /\ log[k].op = "write" =>
                k > 1 /\ log[k - 1] = [log[k] EXCEPT !.op = "copy", !.ok = TRUE]
    /\ \A d \in DOMAIN dest :
          /\ HasDescriptor(d) =>
                \E f \in DOMAIN dest[d] : f # S_ContentsJson /\ EndsWith(f, S_png)
          /\ HasWholeDescriptor(d) =>
                /\ NamesImage(dest[d][S_ContentsJson])
                /\ ImageName(dest[d][S_ContentsJson]) \in DOMAIN dest[d]
                /\ run = 1 =>
                      dest[d][ImageName(dest[d][S_ContentsJson])]
                          = source[ImageName(dest[d][S_ContentsJson])]
    /\ run = 1 => Cardinality({d \in DOMAIN dest : ~HasWholeDescriptor(d)}) <= 1

C10_Witness ==
    /\ run = 1
    /\ pc = "aborted"
    /\ Cardinality(DOMAIN dest) = 3
    /\ Cardinality({d \in DOMAIN dest : ~HasWholeDescriptor(d)}) = 1
    /\ \E d \in DOMAIN dest : HasDescriptor(d) /\ ~HasWholeDescriptor(d)

=============================================================================
